---------------------------- MODULE Spec2Model ----------------------------
(***************************************************************************)
(* Model of the sequence-aware cache and pagination engine of TagStudio    *)
(* (src/src/tagstudio/core/utils/sequences.py, class SequenceRegistry).    *)
(*                                                                         *)
(* Records are identified by their id; the path of a record is a triple    *)
(* (parent directories, stem, extension) of character sequences, so that   *)
(* the regular expression SEQUENCE_RE and the SQL GLOB pattern are         *)
(* computed on characters as the code computes them.                       *)
(***************************************************************************)
EXTENDS Integers, Sequences, FiniteSets, TLC

(***************************************************************************)
(* Bounds of the model.                                                    *)
(***************************************************************************)
\* Largest configured capacity (_cache_max_size) the model tries.
MaxCapacity == 2
\* Number of Store mutations (records added or removed) in one behaviour.
MaxMutations == 1
\* Largest page number and page size requested.
MaxPageNum == 1
MaxPageSize == 2
\* Ledger length up to which a thread may start a call.
MaxLedger == 3
\* Longest stem the pattern is tried on.
MaxStemLen == 5

(***************************************************************************)
(* Constants of the streaming paginator, scaled down so that a Store of a  *)
(* handful of records exercises them; their order is the source's          *)
(* (200 < 500 < 1000 < 50000 < 100000).                                    *)
(***************************************************************************)
\* batch_size = max(page_size * 2, 200)
BatchFloor == 2
\* batch_size = 500 in _get_exact_page
ExactBatchSize == 3
\* if batch_size < 1000: batch_size *= 2
BatchGrowLimit == 4
\* if offset > 50000: break
StreamSafetyCap == 5
\* if offset > 100000: break
ExactSafetyCap == 6

(***************************************************************************)
(* Characters.  A character is a one-character string; Code is its code    *)
(* point, which is what both SQL's ORDER BY (binary collation) and         *)
(* Python's str comparison order by.                                       *)
(***************************************************************************)
Digits == {"0", "1", "2", "3", "4", "5", "6", "7", "8", "9"}

Separators == {".", "_", "-"}

Code(c) ==
    CASE c = "-" -> 45
      [] c = "." -> 46
      [] c = "/" -> 47
      [] c = "0" -> 48
      [] c = "1" -> 49
      [] c = "2" -> 50
      [] c = "3" -> 51
      [] c = "4" -> 52
      [] c = "5" -> 53
      [] c = "6" -> 54
      [] c = "7" -> 55
      [] c = "8" -> 56
      [] c = "9" -> 57
      [] c = "_" -> 95
      [] c = "a" -> 97
      [] c = "b" -> 98
      [] c = "g" -> 103
      [] c = "j" -> 106
      [] c = "n" -> 110
      [] c = "p" -> 112
      [] c = "s" -> 115
      [] c = "x" -> 120
      [] OTHER -> 127

\* Python's str (and list) comparison: lexicographic, a proper prefix first.
RECURSIVE StrLessFrom(_, _, _)
StrLessFrom(a, b, i) ==
    IF i > Len(b) THEN FALSE
    ELSE IF i > Len(a) THEN TRUE
    ELSE IF Code(a[i]) < Code(b[i]) THEN TRUE
    ELSE IF Code(a[i]) > Code(b[i]) THEN FALSE
    ELSE StrLessFrom(a, b, i + 1)

StrLess(a, b) == StrLessFrom(a, b, 1)

(***************************************************************************)
(* SEQUENCE_RE = ^(.*?)[._-](\d{3,6})$ applied to a stem.                  *)
(***************************************************************************)
\* The digit counts k for which the stem ends in a separator and k digits.
SuffixLengths(stem) ==
    { k \in 3..6 :
        /\ Len(stem) >= k + 1
        /\ stem[Len(stem) - k] \in Separators
        /\ \A i \in (Len(stem) - k + 1)..Len(stem) : stem[i] \in Digits }

SequenceReMatches(stem) == SuffixLengths(stem) # {}

\* match.group(1): the lazy (.*?) takes the shortest base, so the longest
\* digit suffix that still has a separator before it.
SequenceReBase(stem) ==
    LET k == CHOOSE n \in SuffixLengths(stem) :
                 \A m \in SuffixLengths(stem) : m <= n
    IN  SubSeq(stem, 1, Len(stem) - k - 1)

(***************************************************************************)
(* Paths.                                                                  *)
(***************************************************************************)
\* entry.path.name
PathName(p) == IF p.ext = <<>> THEN p.stem ELSE p.stem \o <<".">> \o p.ext

\* str(entry.path.parent), "" for a file at the library root.
RECURSIVE JoinDirs(_)
JoinDirs(dirs) ==
    IF dirs = <<>> THEN <<>>
    ELSE IF Len(dirs) = 1 THEN dirs[1]
    ELSE dirs[1] \o <<"/">> \o JoinDirs(Tail(dirs))

\* The path column of the entries table (PathType: Path.as_posix()).
PathStr(p) ==
    IF p.parent = <<>> THEN PathName(p)
    ELSE JoinDirs(p.parent) \o <<"/">> \o PathName(p)

(***************************************************************************)
(* SQL GLOB.  A pattern is a sequence of tokens: "*" (any run of           *)
(* characters, "/" included), "?" (any one character), a character class   *)
(* "[._-]" or "[0-9]", or a literal character.                             *)
(***************************************************************************)
TokenMatches(tok, c) ==
    CASE tok = "?" -> TRUE
      [] tok = "[._-]" -> c \in Separators
      [] tok = "[0-9]" -> c \in Digits
      [] OTHER -> tok = c

RECURSIVE GlobFrom(_, _, _, _)
GlobFrom(pat, i, s, j) ==
    IF i > Len(pat) THEN j > Len(s)
    ELSE IF pat[i] = "*"
         THEN \E k \in j..(Len(s) + 1) : GlobFrom(pat, i + 1, s, k)
    ELSE /\ j <= Len(s)
         /\ TokenMatches(pat[i], s[j])
         /\ GlobFrom(pat, i + 1, s, j + 1)

Glob(pat, s) == GlobFrom(pat, 1, s, 1)

\* The pattern _query_sequence_siblings builds for an entry and its base.
SiblingPattern(p, base) ==
    (IF p.parent = <<>> THEN <<>> ELSE JoinDirs(p.parent) \o <<"/">>)
    \o base \o <<"[._-]", "[0-9]", "[0-9]", "[0-9]", "*">>

(***************************************************************************)
(* The records the Store may hold: record i has identifier i.              *)
(***************************************************************************)
MkPath(parent, stem, ext) == [parent |-> parent, stem |-> stem, ext |-> ext]

Png == <<"p", "n", "g">>

\* a_001.png, a_002.png: a sequence; s.jpg: a single file; b_001.png: a
\* numbered file without siblings; a_001x.png: a file whose stem is no
\* frame name.
Catalogue ==
    << MkPath(<<>>, <<"a", "_", "0", "0", "1">>, Png),
       MkPath(<<>>, <<"a", "_", "0", "0", "2">>, Png),
       MkPath(<<>>, <<"s">>, <<"j", "p", "g">>),
       MkPath(<<>>, <<"b", "_", "0", "0", "1">>, Png),
       MkPath(<<>>, <<"a", "_", "0", "0", "1", "x">>, Png) >>

Ids == 1..Len(Catalogue)

Frame(base, d) == MkPath(<<>>, <<base, "_", "0", "0", d>>, Png)

\* b_002.png .. b_008.png, which with b_001.png make a sequence longer than
\* two batches of the streaming scan, and x.jpg, a single file after it.
LongSequence ==
    << Frame("b", "2"), Frame("b", "3"), Frame("b", "4"), Frame("b", "5"),
       Frame("b", "6"), Frame("b", "7"), Frame("b", "8"),
       MkPath(<<>>, <<"x">>, <<"j", "p", "g">>) >>

Records == Catalogue \o LongSequence

AllIds == 1..Len(Records)

PathOf(id) == Records[id]


(***************************************************************************)
(* State.                                                                  *)
(***************************************************************************)
VARIABLES
    store,          \* identifiers of the records the Store holds
    assigned,       \* identifiers 1..assigned have been handed out by the Store
    mutations,      \* Store mutations so far
    cacheMaxSize,   \* _cache_max_size
    cache,          \* _sequence_cache: id -> list of ids, <<>> when id is no key
    order,          \* _cache_access_order
    progressive,    \* the page numbers that are keys of _progressive_cache
    call,           \* the get_sequence_aware_page call in progress, if any
    last,           \* the engine call made last, "store" after a Store mutation
    threads,        \* the get_complete_sequence call each thread is in, if any
    tried           \* the stem SEQUENCE_RE was applied to last, and the outcome

vars == << store, assigned, mutations, cacheMaxSize,
           cache, order, progressive, call, last, threads, tried >>

(***************************************************************************)
(* Sequence helpers.                                                       *)
(***************************************************************************)
SeqSet(s) == { s[i] : i \in 1..Len(s) }

\* list.remove(x): removes the first occurrence of x.
RemoveFirst(s, x) ==
    IF x \notin SeqSet(s) THEN s
    ELSE LET i == CHOOSE n \in 1..Len(s) :
                      s[n] = x /\ \A m \in 1..(n - 1) : s[m] # x
         IN  SubSeq(s, 1, i - 1) \o SubSeq(s, i + 1, Len(s))

\* The identifiers of S ordered by path (ORDER BY path).
RECURSIVE SortByPath(_)
SortByPath(S) ==
    IF S = {} THEN <<>>
    ELSE LET m == CHOOSE x \in S :
                      \A y \in S \ {x} : StrLess(PathStr(PathOf(x)), PathStr(PathOf(y)))
         IN  <<m>> \o SortByPath(S \ {m})

\* The identifiers of S in increasing order (ORDER BY id).
RECURSIVE SortById(_)
SortById(S) ==
    IF S = {} THEN <<>>
    ELSE LET m == CHOOSE x \in S : \A y \in S : x <= y
         IN  <<m>> \o SortById(S \ {m})

(***************************************************************************)
(* The Store.                                                              *)
(***************************************************************************)
\* Every operation that calls the Store takes a parameter ok: whether the
\* Store answers the calls the operation makes (FALSE: a call raises).

\* _query_sequence_siblings: the records whose path GLOB-matches the
\* pattern, ordered by path; [] when the Store fails.
QuerySequenceSiblings(id, base, ok) ==
    IF ~ok THEN <<>>
    ELSE SortByPath({ i \in store :
                        Glob(SiblingPattern(PathOf(id), base), PathStr(PathOf(i))) })

(***************************************************************************)
(* The sequence cache.                                                     *)
(***************************************************************************)
CacheKeys(c) == { i \in AllIds : c[i] # <<>> }

EmptyCache == [i \in AllIds |-> <<>>]

\* The eviction loop of _add_to_cache: n pops from the front of the ledger.
RECURSIVE Evict(_, _, _)
Evict(c, o, n) ==
    IF n = 0 THEN [cache |-> c, order |-> o]
    ELSE IF o = <<>> THEN Evict(c, o, n - 1)
    ELSE Evict([c EXCEPT ![Head(o)] = <<>>], Tail(o), n - 1)

\* The insertion loop of _add_to_cache.
RECURSIVE Insert(_, _, _, _)
Insert(c, o, ids, i) ==
    IF i > Len(ids) THEN [cache |-> c, order |-> o]
    ELSE Insert([c EXCEPT ![ids[i]] = ids],
                IF ids[i] \in SeqSet(o) THEN o ELSE Append(o, ids[i]),
                ids, i + 1)

\* An _add_to_cache that evicts and then inserts nothing.
AddToCacheWithoutInsert(c, o, ids) ==
    IF Cardinality(CacheKeys(c)) + Len(ids) > cacheMaxSize
    THEN Evict(c, o, Len(ids))
    ELSE [cache |-> c, order |-> o]

\* An _add_to_cache whose eviction loop pops one identifier, whatever the
\* number of identifiers to insert.
AddToCacheEvictingOne(c, o, ids) ==
    LET e == IF Cardinality(CacheKeys(c)) + Len(ids) > cacheMaxSize
             THEN Evict(c, o, 1)
             ELSE [cache |-> c, order |-> o]
    IN  Insert(e.cache, e.order, ids, 1)

AddToCache(c, o, ids) ==
    LET e == IF Cardinality(CacheKeys(c)) + Len(ids) > cacheMaxSize
             THEN Evict(c, o, Len(ids))
             ELSE [cache |-> c, order |-> o]
    IN  Insert(e.cache, e.order, ids, 1)

\* A touch that forgets to remove the identifier before appending it.
TouchWithoutRemove(o, id) == Append(o, id)

\* A touch that moves the identifier to the least-recently-used end.
TouchToFront(o, id) == <<id>> \o RemoveFirst(o, id)

\* The LRU touch of a cache hit.
Touch(o, id) == Append(RemoveFirst(o, id), id)

\* A get_complete_sequence whose hit path has no handler: when the Store
\* fails it hands back the cached list instead of the single record.
GetCompleteSequenceUnguardedHit(c, o, id, ok) ==
    IF c[id] # <<>>
    THEN [cache |-> c, order |-> Touch(o, id), hit |-> TRUE,
          queried |-> FALSE,
          out |-> IF ok THEN SelectSeq(c[id], LAMBDA e : e \in store)
                  ELSE c[id]]
    ELSE IF ~SequenceReMatches(PathOf(id).stem)
    THEN LET a == AddToCache(c, o, <<id>>)
         IN  [cache |-> a.cache, order |-> a.order, hit |-> FALSE,
              queried |-> FALSE, out |-> <<id>>]
    ELSE LET sib == QuerySequenceSiblings(id, SequenceReBase(PathOf(id).stem),
                                          ok)
             ids == IF sib = <<>> THEN <<id>> ELSE sib
             a   == AddToCache(c, o, ids)
         IN  [cache |-> a.cache, order |-> a.order, hit |-> FALSE,
              queried |-> TRUE, out |-> ids]

\* A get_complete_sequence whose hit path hands back the cached list as
\* it is, members the Store no longer holds included.
GetCompleteSequenceUnfilteredHit(c, o, id, ok) ==
    IF c[id] # <<>>
    THEN [cache |-> c, order |-> Touch(o, id), hit |-> TRUE,
          queried |-> FALSE, out |-> IF ok THEN c[id] ELSE <<id>>]
    ELSE IF ~SequenceReMatches(PathOf(id).stem)
    THEN LET a == AddToCache(c, o, <<id>>)
         IN  [cache |-> a.cache, order |-> a.order, hit |-> FALSE,
              queried |-> FALSE, out |-> <<id>>]
    ELSE LET sib == QuerySequenceSiblings(id, SequenceReBase(PathOf(id).stem),
                                          ok)
             ids == IF sib = <<>> THEN <<id>> ELSE sib
             a   == AddToCache(c, o, ids)
         IN  [cache |-> a.cache, order |-> a.order, hit |-> FALSE,
              queried |-> TRUE, out |-> ids]

\* get_complete_sequence(entry) in a registry whose cache is c and whose
\* ledger is o: the new cache and ledger, the returned list (as ids),
\* whether it was a hit and whether it asked the Store for siblings.
\* On a hit a failing library.get_entry raises into the except clause.
GetCompleteSequence(c, o, id, ok) ==
    IF c[id] # <<>>
    THEN LET o2 == Touch(o, id)
         IN  IF ok
             THEN [cache |-> c, order |-> o2, hit |-> TRUE, queried |-> FALSE,
                   out |-> SelectSeq(c[id], LAMBDA e : e \in store)]
             ELSE [cache |-> c, order |-> o2, hit |-> TRUE, queried |-> FALSE,
                   out |-> <<id>>]
    ELSE IF ~SequenceReMatches(PathOf(id).stem)
    THEN LET a == AddToCache(c, o, <<id>>)
         IN  [cache |-> a.cache, order |-> a.order, hit |-> FALSE,
              queried |-> FALSE, out |-> <<id>>]
    ELSE LET sib == QuerySequenceSiblings(id, SequenceReBase(PathOf(id).stem),
                                          ok)
             ids == IF sib = <<>> THEN <<id>> ELSE sib
             a   == AddToCache(c, o, ids)
         IN  [cache |-> a.cache, order |-> a.order, hit |-> FALSE,
              queried |-> TRUE, out |-> ids]

(***************************************************************************)
(* Store calls made through the Library object.                            *)
(***************************************************************************)
\* library.get_entry(id): the record, or None (here <<>>).
GetEntry(id) == IF id \in store THEN <<id>> ELSE <<>>

\* A search that hands back every record of the Store, whatever the filter.
SearchLibraryIgnoringFilter(F) == SortById(store)

\* library.search_library(browsing_state, 999999).items for a filter that
\* the records of F satisfy.
SearchLibrary(F) == SortById(store \cap F)

\* library.entries_count
EntriesCount == Cardinality(store)

Min(a, b) == IF a < b THEN a ELSE b

Max(a, b) == IF a > b THEN a ELSE b

\* A slice that runs to the end of the list, whatever its upper index.
SliceToEnd(s, a, b) == SubSeq(s, a + 1, Len(s))

\* Python's s[a:b].
Slice(s, a, b) == SubSeq(s, a + 1, Min(b, Len(s)))

\* _get_entries_batch: ORDER BY id OFFSET offset LIMIT limit; [] on failure.
GetEntriesBatch(offset, limit, ok) ==
    IF ~ok THEN <<>>
    ELSE Slice(SortById(store), offset, offset + limit)

\* Comparison of two Path objects: their parts, compared as lists of str.
PathParts(p) == p.parent \o <<PathName(p)>>

RECURSIVE PartsLessFrom(_, _, _)
PartsLessFrom(a, b, i) ==
    IF i > Len(b) THEN FALSE
    ELSE IF i > Len(a) THEN TRUE
    ELSE IF StrLess(a[i], b[i]) THEN TRUE
    ELSE IF StrLess(b[i], a[i]) THEN FALSE
    ELSE PartsLessFrom(a, b, i + 1)

PathLess(p, q) == PartsLessFrom(PathParts(p), PathParts(q), 1)

\* A poster that is the member with the greatest path.
PosterLastFrame(ids) ==
    CHOOSE x \in SeqSet(ids) :
        \A y \in SeqSet(ids) \ {x} : PathLess(PathOf(y), PathOf(x))

\* min(sequence_entries, key=lambda e: e.path)
Poster(ids) ==
    CHOOSE x \in SeqSet(ids) :
        \A y \in SeqSet(ids) \ {x} : PathLess(PathOf(x), PathOf(y))

(***************************************************************************)
(* The page call in progress and the page cache.                           *)
(***************************************************************************)
Idle ==
    [pc |-> "idle", num |-> 0, size |-> 0, filtered |-> FALSE, filt |-> {},
     batch |-> <<>>, items |-> <<>>, counts |-> <<>>, processed |-> {},
     offset |-> 0, batchSize |-> 0, batchLen |-> 0, batchStart |-> 0,
     found |-> 0, examined |-> 0, groups |-> <<>>]

\* call.groups keeps, for each display item, the records the item stands
\* for (the list get_complete_sequence returned for it, or the record
\* alone), which the code drops once it has taken the list's length.

\* The page cache is written under key 0 only, and read only by
\* _get_page_progressive right after that write: the state keeps its keys.
NoPages == {}

SetPage(pages, k) == pages \cup {k}

\* What a page call hands to its caller; a frame count of None is written 0.
PageResult(items, counts, total) ==
    [raised |-> FALSE, items |-> items, counts |-> counts, total |-> total]

PageRaised == [raised |-> TRUE, items |-> <<>>, counts |-> <<>>, total |-> 0]

\* The threads a host may call the engine from, and a thread that is in
\* no call.
Threads == {"t1", "t2"}

IdleThread ==
    [pc |-> "idle", id |-> 0, ids |-> <<>>, i |-> 0, n |-> 0, old |-> 0]

AllIdle == [t \in Threads |-> IdleThread]

\* SEQUENCE_RE.match(stem): whether it matched and match.group(1).
Match(stem) ==
    [stem  |-> stem,
     match |-> SequenceReMatches(stem),
     base  |-> IF SequenceReMatches(stem) THEN SequenceReBase(stem) ELSE <<>>]

\* What a call made on its own leaves alone: the Store, the capacity, the
\* threads, none of which is in a call then, and the stem tried last.
Env == << store, assigned, mutations, cacheMaxSize, threads, tried >>

(***************************************************************************)
(* Init: a registry just constructed on a library that holds the first     *)
(* records of the catalogue.                                               *)
(***************************************************************************)
InitialSizes == {Len(Catalogue) - 1, Len(Catalogue)}

Init ==
    /\ assigned \in InitialSizes
    /\ store = 1..assigned
    /\ mutations = 0
    /\ cacheMaxSize \in 1..MaxCapacity
    /\ cache = EmptyCache
    /\ order = <<>>
    /\ progressive = NoPages
    /\ call = Idle
    /\ last = "none"
    /\ threads = AllIdle
    /\ tried = Match(<<>>)

(***************************************************************************)
(* The engine's interface.                                                 *)
(***************************************************************************)
\* get_complete_sequence(entry), entry a record the Store holds or held.
CallGetCompleteSequence(id, ok) ==
    /\ call.pc = "idle"
    /\ id \in 1..assigned
    /\ LET g == GetCompleteSequence(cache, order, id, ok)
       IN  /\ cache' = g.cache
           /\ order' = g.order
    /\ last' = "gcs"
    /\ UNCHANGED << Env, progressive, call >>

\* ids_for_poster(entry_id) in a registry whose cache is c and whose ledger
\* is o: the new cache and ledger, the returned list, and whether the call
\* raised instead of returning.  okEntry: library.get_entry answers;
\* okSeq: the Store answers get_complete_sequence.
IdsForPoster(c, o, id, okEntry, okSeq) ==
    IF c[id] # <<>>
    THEN [cache |-> c, order |-> o, raised |-> FALSE, out |-> c[id]]
    ELSE IF ~okEntry
    THEN \* library.get_entry raises and nothing catches it
         [cache |-> c, order |-> o, raised |-> TRUE, out |-> <<>>]
    ELSE IF GetEntry(id) # <<>>
    THEN LET g == GetCompleteSequence(c, o, id, okSeq)
         IN  [cache |-> g.cache, order |-> g.order, raised |-> FALSE,
              out |-> g.out]
    ELSE [cache |-> c, order |-> o, raised |-> FALSE, out |-> <<id>>]

\* ids_for_poster(entry_id), for any identifier.
CallIdsForPoster(id, okEntry, okSeq) ==
    /\ call.pc = "idle"
    /\ id \in Ids
    /\ LET r == IdsForPoster(cache, order, id, okEntry, okSeq)
       IN  /\ cache' = r.cache
           /\ order' = r.order
    /\ last' = "ids"
    /\ UNCHANGED << Env, progressive, call >>

\* A clear_cache that forgets the ledger.
ClearCacheKeepsLedger ==
    [cache |-> EmptyCache, order |-> order, progressive |-> NoPages]

\* clear_cache(): the cache, the ledger and the page cache it leaves.
ClearCache ==
    [cache |-> EmptyCache, order |-> <<>>, progressive |-> NoPages]

CallClearCache ==
    /\ call.pc = "idle"
    /\ cache' = ClearCache.cache
    /\ order' = ClearCache.order
    /\ progressive' = ClearCache.progressive
    /\ last' = "clear"
    /\ UNCHANGED << Env, call >>

(***************************************************************************)
(* get_sequence_aware_page, one step per candidate record, each step with  *)
(* its own ok.  A step that returns to the caller goes back to Idle; what  *)
(* it returns is FilteredReturn, StreamReturn or ExactReturn in the state  *)
(* before it.                                                              *)
(***************************************************************************)
\* The filters a caller may pass: each is the set of records it matches.
Filters == { {1, 2, 4, 5}, {2, 3} }

\* get_sequence_aware_page(page_num, page_size, browsing_state): entry.
\* With a filter and a failing Store, library.search_library raises and
\* nothing catches it.
CallGetSequenceAwarePage(num, size, filtered, F, ok) ==
    /\ call.pc = "idle"
    /\ call' =
         IF filtered
         THEN IF ok
              THEN [Idle EXCEPT !.pc = "filtered", !.num = num, !.size = size,
                                !.filtered = TRUE, !.filt = F,
                                !.batch = SearchLibrary(F)]
              ELSE Idle
         ELSE [Idle EXCEPT !.pc = "stream", !.num = num, !.size = size,
                           !.batchSize = Max(size * 2, BatchFloor)]
    /\ last' = "page"
    /\ UNCHANGED << Env, cache, order, progressive >>

\* _process_entries_for_sequences: one iteration of its loop.
FilteredEntry(ok) ==
    /\ call.pc = "filtered"
    /\ call.batch # <<>>
    /\ LET id == Head(call.batch)
           g  == GetCompleteSequence(cache, order, id, ok)
       IN  IF id \in call.processed
           THEN /\ call' = [call EXCEPT !.batch = Tail(call.batch)]
                /\ UNCHANGED << cache, order >>
           ELSE /\ cache' = g.cache
                /\ order' = g.order
                /\ call' =
                     IF Len(g.out) > 1
                     THEN [call EXCEPT
                             !.batch = Tail(call.batch),
                             !.items = Append(call.items, Poster(g.out)),
                             !.counts = Append(call.counts, Len(g.out)),
                             !.groups = Append(call.groups, SeqSet(g.out)),
                             !.processed = call.processed \cup SeqSet(g.out)]
                     ELSE [call EXCEPT
                             !.batch = Tail(call.batch),
                             !.items = Append(call.items, id),
                             !.counts = Append(call.counts, 0),
                             !.groups = Append(call.groups, {id}),
                             !.processed = call.processed \cup {id}]
    /\ UNCHANGED << Env, progressive, last >>

\* What the filtered branch of get_sequence_aware_page returns.
FilteredReturn ==
    LET start == call.num * call.size
    IN  PageResult(Slice(call.items, start, start + call.size),
                   Slice(call.counts, start, start + call.size),
                   Len(call.items))

FilteredDone ==
    /\ call.pc = "filtered"
    /\ call.batch = <<>>
    /\ call' = Idle
    /\ UNCHANGED << Env, cache, order, progressive, last >>

\* _get_page_streaming: the while test and the fetch of the next batch.
StreamFetch(ok) ==
    /\ call.pc = "stream"
    /\ LET batch == GetEntriesBatch(call.offset, call.batchSize, ok)
       IN  call' =
             IF Len(call.items) >= call.size \/ batch = <<>>
             THEN [call EXCEPT !.pc = "streamDone"]
             ELSE [call EXCEPT !.pc = "streamBatch", !.batch = batch,
                               !.batchLen = Len(batch),
                               !.batchStart = Len(call.items)]
    /\ UNCHANGED << Env, cache, order, progressive, last >>

\* The single-file branch shared by the two streaming loops, with its
\* test for a full page; emit says whether the item is past the skipped
\* ones.
SingleFile(id, emit) ==
    LET items == IF emit THEN Append(call.items, id) ELSE call.items
    IN  [call EXCEPT
           !.items = items,
           !.counts = IF emit THEN Append(call.counts, 0) ELSE call.counts,
           !.groups = IF emit THEN Append(call.groups, {id}) ELSE call.groups,
           !.found = call.found + 1,
           !.processed = call.processed \cup {id},
           !.batch = IF Len(items) >= call.size THEN <<>>
                     ELSE Tail(call.batch)]

\* The sequence branch shared by the two streaming loops (it ends in
\* continue, so the test for a full page is skipped).
PosterItem(out, emit) ==
    IF Poster(out) \in call.processed
    THEN [call EXCEPT !.batch = Tail(call.batch)]
    ELSE [call EXCEPT
            !.batch = Tail(call.batch),
            !.items = IF emit THEN Append(call.items, Poster(out))
                      ELSE call.items,
            !.counts = IF emit THEN Append(call.counts, Len(out))
                       ELSE call.counts,
            !.groups = IF emit THEN Append(call.groups, SeqSet(out))
                       ELSE call.groups,
            !.found = call.found + 1,
            !.processed = call.processed \cup SeqSet(out)]

\* One more record examined: call.examined counts the iterations of the
\* for loop, which the code does not count (its offset counts the records
\* of whole batches).
Examined(c) == [c EXCEPT !.examined = @ + 1]

\* One iteration of the for loop of _get_page_streaming (emit = TRUE) or
\* of _get_exact_page (emit: items_found >= target_skip).
ScanEntry(emit, ok) ==
    LET id == Head(call.batch)
        g  == GetCompleteSequence(cache, order, id, ok)
    IN  IF id \in call.processed
        THEN /\ call' = Examined([call EXCEPT !.batch = Tail(call.batch)])
             /\ UNCHANGED << cache, order >>
        ELSE IF SequenceReMatches(PathOf(id).stem)
        THEN /\ cache' = g.cache
             /\ order' = g.order
             /\ call' = Examined(IF Len(g.out) > 1 THEN PosterItem(g.out, emit)
                                 ELSE SingleFile(id, emit))
        ELSE /\ call' = Examined(SingleFile(id, emit))
             /\ UNCHANGED << cache, order >>

StreamEntry(ok) ==
    /\ call.pc = "streamBatch"
    /\ call.batch # <<>>
    /\ ScanEntry(TRUE, ok)
    /\ UNCHANGED << Env, progressive, last >>

\* After the for loop of _get_page_streaming: progress test, offset, cap.
StreamBatchEnd ==
    /\ call.pc = "streamBatch"
    /\ call.batch = <<>>
    /\ LET stuck == Len(call.items) = call.batchStart
           off   == call.offset + call.batchLen
       IN  call' =
             IF stuck /\ call.batchSize >= BatchGrowLimit
             THEN [call EXCEPT !.pc = "streamDone"]
             ELSE [call EXCEPT
                     !.pc = IF off > StreamSafetyCap THEN "streamDone"
                            ELSE "stream",
                     !.offset = off,
                     !.batchSize = IF stuck THEN 2 * call.batchSize
                                   ELSE call.batchSize]
    /\ UNCHANGED << Env, cache, order, progressive, last >>

\* An estimate that leaves out the Store's record count.
EstimateWithoutRecordCount(shown, offset) == shown \div offset

\* int(total_entries * (shown / offset))
Estimate(shown, offset) == (EntriesCount * shown) \div offset

\* _get_page_progressive: whether page_num is in the page cache.
CachedPage(pages, num) == num \in pages

\* What _get_page_streaming returns for page 0 (and computes before it
\* hands a later page over); library.entries_count raises when the Store
\* fails and nothing catches it.
StreamReturn(ok) ==
    IF call.offset > 0 /\ ~ok THEN PageRaised
    ELSE PageResult(Slice(call.items, 0, call.size),
                    Slice(call.counts, 0, call.size),
                    IF call.offset > 0
                    THEN Estimate(Len(call.items), call.offset)
                    ELSE Len(call.items))

\* The end of _get_page_streaming: the page cache, and for a page after
\* the first the hand-over to _get_page_progressive, which returns the
\* cached page or goes on to _get_exact_page.
StreamDone(ok) ==
    /\ call.pc = "streamDone"
    /\ LET pages == SetPage(progressive, 0)
       IN  IF StreamReturn(ok).raised
           THEN /\ call' = Idle
                /\ UNCHANGED progressive
           ELSE /\ progressive' = pages
                /\ call' =
                     IF call.num = 0 \/ CachedPage(pages, call.num)
                     THEN Idle
                     ELSE [Idle EXCEPT !.pc = "exact", !.num = call.num,
                                       !.size = call.size,
                                       !.batchSize = ExactBatchSize]
    /\ UNCHANGED << Env, cache, order, last >>

\* A fetch in _get_exact_page that does not leave the loop on an empty
\* batch.
ExactFetchWithoutEmptyBreak(ok) ==
    /\ call.pc = "exact"
    /\ LET batch == GetEntriesBatch(call.offset, call.batchSize, ok)
       IN  call' =
             IF call.found >= call.num * call.size + call.size
             THEN [call EXCEPT !.pc = "exactDone"]
             ELSE [call EXCEPT !.pc = "exactBatch", !.batch = batch,
                               !.batchLen = Len(batch)]
    /\ UNCHANGED << Env, cache, order, progressive, last >>

\* _get_exact_page: the while test and the fetch of the next batch.
ExactFetch(ok) ==
    /\ call.pc = "exact"
    /\ LET batch == GetEntriesBatch(call.offset, call.batchSize, ok)
       IN  call' =
             IF call.found >= call.num * call.size + call.size \/ batch = <<>>
             THEN [call EXCEPT !.pc = "exactDone"]
             ELSE [call EXCEPT !.pc = "exactBatch", !.batch = batch,
                               !.batchLen = Len(batch)]
    /\ UNCHANGED << Env, cache, order, progressive, last >>

ExactEntry(ok) ==
    /\ call.pc = "exactBatch"
    /\ call.batch # <<>>
    /\ ScanEntry(call.found >= call.num * call.size, ok)
    /\ UNCHANGED << Env, progressive, last >>

\* After the for loop of _get_exact_page: offset and cap.
ExactBatchEnd ==
    /\ call.pc = "exactBatch"
    /\ call.batch = <<>>
    /\ LET off == call.offset + call.batchLen
       IN  call' = [call EXCEPT
                      !.pc = IF off > ExactSafetyCap THEN "exactDone"
                             ELSE "exact",
                      !.offset = off]
    /\ UNCHANGED << Env, cache, order, progressive, last >>

\* What _get_exact_page returns.
ExactReturn(ok) ==
    IF call.offset > 0 /\ ~ok THEN PageRaised
    ELSE PageResult(Slice(call.items, 0, call.size),
                    Slice(call.counts, 0, call.size),
                    IF call.offset > 0
                    THEN Estimate(call.found, call.offset)
                    ELSE call.found)

ExactDone ==
    /\ call.pc = "exactDone"
    /\ call' = Idle
    /\ UNCHANGED << Env, cache, order, progressive, last >>

(***************************************************************************)
(* The environment: records are added to the Store and removed from it     *)
(* between two engine calls.                                               *)
(***************************************************************************)
\* The Store assigns the next identifier to a new record.
AddRecord ==
    /\ call.pc = "idle"
    /\ mutations < MaxMutations
    /\ assigned < Len(Catalogue)
    /\ assigned' = assigned + 1
    /\ store' = store \cup {assigned + 1}
    /\ mutations' = mutations + 1
    /\ last' = "store"
    /\ UNCHANGED << cacheMaxSize, cache, order, progressive, call, threads,
                    tried >>

RemoveRecord(id) ==
    /\ call.pc = "idle"
    /\ mutations < MaxMutations
    /\ id \in store
    /\ store' = store \ {id}
    /\ mutations' = mutations + 1
    /\ last' = "store"
    /\ UNCHANGED << assigned, cacheMaxSize, cache, order, progressive, call,
                    threads, tried >>

Next ==
    \/ \E id \in Ids, ok \in BOOLEAN : CallGetCompleteSequence(id, ok)
    \/ \E id \in Ids, okEntry \in BOOLEAN, okSeq \in BOOLEAN :
          CallIdsForPoster(id, okEntry, okSeq)
    \/ CallClearCache
    \/ \E num \in 0..MaxPageNum, size \in 1..MaxPageSize, ok \in BOOLEAN :
          \/ CallGetSequenceAwarePage(num, size, FALSE, {}, ok)
          \/ \E F \in Filters : CallGetSequenceAwarePage(num, size, TRUE, F, ok)
    \/ \E ok \in BOOLEAN : FilteredEntry(ok)
    \/ FilteredDone
    \/ \E ok \in BOOLEAN : StreamFetch(ok)
    \/ \E ok \in BOOLEAN : StreamEntry(ok)
    \/ StreamBatchEnd
    \/ \E ok \in BOOLEAN : StreamDone(ok)
    \/ \E ok \in BOOLEAN : ExactFetch(ok)
    \/ \E ok \in BOOLEAN : ExactEntry(ok)
    \/ ExactBatchEnd
    \/ ExactDone
    \/ AddRecord
    \/ \E id \in Ids : RemoveRecord(id)

Spec == Init /\ [][Next]_vars

(***************************************************************************)
(* The engine on a static library: no record is added or removed and the   *)
(* Store answers every call.  The library holds a sequence and a single    *)
(* file, or a sequence and a file whose name merely starts like a frame's, *)
(* or the catalogue, or the long sequence followed by a single file.  A    *)
(* filter may match any set of records of the catalogue.                   *)
(***************************************************************************)
StaticStores ==
    { {1, 2, 3}, {1, 2, 5}, Ids, {4} \cup (AllIds \ Ids) }

StaticInit ==
    /\ store \in StaticStores
    /\ assigned = CHOOSE m \in store : \A x \in store : x <= m
    /\ mutations = 0
    /\ cacheMaxSize \in (1..MaxCapacity) \cup {Len(Records)}
    /\ cache = EmptyCache
    /\ order = <<>>
    /\ progressive = NoPages
    /\ call = Idle
    /\ last = "none"
    /\ threads = AllIdle
    /\ tried = Match(<<>>)

StaticNext ==
    \/ \E id \in Ids \cap store : CallGetCompleteSequence(id, TRUE)
    \/ \E id \in Ids \cap store : CallIdsForPoster(id, TRUE, TRUE)
    \/ CallClearCache
    \/ \E num \in 0..MaxPageNum, size \in 1..MaxPageSize :
          \/ CallGetSequenceAwarePage(num, size, FALSE, {}, TRUE)
          \/ \E F \in SUBSET Ids :
                CallGetSequenceAwarePage(num, size, TRUE, F, TRUE)
    \/ FilteredEntry(TRUE)
    \/ FilteredDone
    \/ StreamFetch(TRUE)
    \/ StreamEntry(TRUE)
    \/ StreamBatchEnd
    \/ StreamDone(TRUE)
    \/ ExactFetch(TRUE)
    \/ ExactEntry(TRUE)
    \/ ExactBatchEnd
    \/ ExactDone

StaticSpec == StaticInit /\ [][StaticNext]_vars

(***************************************************************************)
(* The page call run to its end.  The library is one of the static         *)
(* libraries above; any Store call of a step may fail.  A call that has    *)
(* started runs on: the code is sequential and nothing in it waits, so     *)
(* some step of the call is taken as long as one is possible.              *)
(***************************************************************************)
\* A step inside get_sequence_aware_page.
PageStep ==
    \/ \E ok \in BOOLEAN : FilteredEntry(ok)
    \/ FilteredDone
    \/ \E ok \in BOOLEAN : StreamFetch(ok)
    \/ \E ok \in BOOLEAN : StreamEntry(ok)
    \/ StreamBatchEnd
    \/ \E ok \in BOOLEAN : StreamDone(ok)
    \/ \E ok \in BOOLEAN : ExactFetch(ok)
    \/ \E ok \in BOOLEAN : ExactEntry(ok)
    \/ ExactBatchEnd
    \/ ExactDone

ScanNext ==
    \/ \E num \in 0..MaxPageNum, size \in 1..MaxPageSize, ok \in BOOLEAN :
          \/ CallGetSequenceAwarePage(num, size, FALSE, {}, ok)
          \/ \E F \in Filters : CallGetSequenceAwarePage(num, size, TRUE, F, ok)
    \/ CallClearCache
    \/ PageStep

ScanSpec == StaticInit /\ [][ScanNext]_vars /\ WF_vars(PageStep)

(***************************************************************************)
(* Two threads in get_complete_sequence at once.  The class holds no lock  *)
(* and takes none, so the threads interleave between any two operations    *)
(* on the cache map and the ledger; each action below is one such          *)
(* operation.  An exception raised by one of them is caught by the         *)
(* handler of get_complete_sequence (lines 57-59), which returns.          *)
(***************************************************************************)
Others ==
    << store, assigned, mutations, cacheMaxSize, progressive, call, last, tried >>

At(t, pc) == threads[t].pc = pc

Goto(t, pc) == threads' = [threads EXCEPT ![t].pc = pc]

Return(t) == threads' = [threads EXCEPT ![t] = IdleThread]

\* A thread calls get_complete_sequence(entry).
ThreadBegin(t, id) ==
    /\ At(t, "idle")
    /\ id \in store
    /\ Len(order) < MaxLedger
    /\ threads' = [threads EXCEPT ![t] = [IdleThread EXCEPT !.pc = "lookup",
                                                            !.id = id]]
    /\ UNCHANGED << Others, cache, order >>

\* Line 28: entry.id in self._sequence_cache.
ThreadLookup(t) ==
    /\ At(t, "lookup")
    /\ Goto(t, IF cache[threads[t].id] # <<>> THEN "hitCheck" ELSE "query")
    /\ UNCHANGED << Others, cache, order >>

\* Line 30: entry.id in self._cache_access_order.
ThreadHitCheck(t) ==
    /\ At(t, "hitCheck")
    /\ Goto(t, IF threads[t].id \in SeqSet(order) THEN "hitRemove"
                ELSE "hitAppend")
    /\ UNCHANGED << Others, cache, order >>

\* Line 31: remove(entry.id), a ValueError when the other thread has
\* removed it meanwhile.
ThreadHitRemove(t) ==
    /\ At(t, "hitRemove")
    /\ IF threads[t].id \in SeqSet(order)
       THEN /\ order' = RemoveFirst(order, threads[t].id)
            /\ Goto(t, "hitAppend")
       ELSE /\ Return(t)
            /\ UNCHANGED order
    /\ UNCHANGED << Others, cache >>

\* Lines 32-36: append(entry.id), then the members are fetched and the
\* call returns.
ThreadHitAppend(t) ==
    /\ At(t, "hitAppend")
    /\ order' = Append(order, threads[t].id)
    /\ Return(t)
    /\ UNCHANGED << Others, cache >>

\* Lines 38-54: the identifiers the miss path hands to _add_to_cache.
ThreadQuery(t) ==
    /\ At(t, "query")
    /\ LET id  == threads[t].id
           sib == IF SequenceReMatches(PathOf(id).stem)
                  THEN QuerySequenceSiblings(
                           id, SequenceReBase(PathOf(id).stem), TRUE)
                  ELSE <<>>
       IN  threads' = [threads EXCEPT
                         ![t].pc = "sizeCheck",
                         ![t].ids = IF sib = <<>> THEN <<id>> ELSE sib]
    /\ UNCHANGED << Others, cache, order >>

\* Lines 408-409: the capacity test.
ThreadSizeCheck(t) ==
    /\ At(t, "sizeCheck")
    /\ threads' =
         IF Cardinality(CacheKeys(cache)) + Len(threads[t].ids) > cacheMaxSize
         THEN [threads EXCEPT ![t].pc = "evictCheck",
                              ![t].n = Len(threads[t].ids)]
         ELSE [threads EXCEPT ![t].pc = "insert", ![t].i = 1]
    /\ UNCHANGED << Others, cache, order >>

\* Lines 410-411: the next round of the eviction loop and its test of the
\* ledger.
ThreadEvictCheck(t) ==
    /\ At(t, "evictCheck")
    /\ threads' =
         IF threads[t].n = 0
         THEN [threads EXCEPT ![t].pc = "insert", ![t].i = 1]
         ELSE IF order # <<>>
         THEN [threads EXCEPT ![t].pc = "evictPop"]
         ELSE [threads EXCEPT ![t].n = @ - 1]
    /\ UNCHANGED << Others, cache, order >>

\* Line 412: pop(0), an IndexError when the other thread has emptied the
\* ledger meanwhile.
ThreadEvictPop(t) ==
    /\ At(t, "evictPop")
    /\ IF order # <<>>
       THEN /\ order' = Tail(order)
            /\ threads' = [threads EXCEPT ![t].pc = "evictDel",
                                          ![t].old = Head(order)]
       ELSE /\ Return(t)
            /\ UNCHANGED order
    /\ UNCHANGED << Others, cache >>

\* Line 413: self._sequence_cache.pop(old_id, None).
ThreadEvictDel(t) ==
    /\ At(t, "evictDel")
    /\ cache' = [cache EXCEPT ![threads[t].old] = <<>>]
    /\ threads' = [threads EXCEPT ![t].pc = "evictCheck", ![t].n = @ - 1]
    /\ UNCHANGED << Others, order >>

\* Lines 416-417: the next round of the insertion loop and its write of
\* the map; after the last round the call returns.
ThreadInsertMap(t) ==
    /\ At(t, "insert")
    /\ IF threads[t].i > Len(threads[t].ids)
       THEN /\ Return(t)
            /\ UNCHANGED cache
       ELSE /\ cache' = [cache EXCEPT ![threads[t].ids[threads[t].i]] =
                                        threads[t].ids]
            /\ Goto(t, "insertCheck")
    /\ UNCHANGED << Others, order >>

\* Line 418: eid not in self._cache_access_order.
ThreadInsertCheck(t) ==
    /\ At(t, "insertCheck")
    /\ threads' =
         IF threads[t].ids[threads[t].i] \in SeqSet(order)
         THEN [threads EXCEPT ![t].pc = "insert", ![t].i = @ + 1]
         ELSE [threads EXCEPT ![t].pc = "insertAppend"]
    /\ UNCHANGED << Others, cache, order >>

\* Line 419: append(eid).
ThreadInsertAppend(t) ==
    /\ At(t, "insertAppend")
    /\ order' = Append(order, threads[t].ids[threads[t].i])
    /\ threads' = [threads EXCEPT ![t].pc = "insert", ![t].i = @ + 1]
    /\ UNCHANGED << Others, cache >>

\* A library of one sequence and one single file, and a capacity that
\* holds the sequence.
ThreadsInit ==
    /\ store = {1, 2, 3}
    /\ assigned = Cardinality(store)
    /\ mutations = 0
    /\ cacheMaxSize = MaxCapacity
    /\ cache = EmptyCache
    /\ order = <<>>
    /\ progressive = NoPages
    /\ call = Idle
    /\ last = "none"
    /\ threads = AllIdle
    /\ tried = Match(<<>>)

ThreadsNext ==
    \E t \in Threads :
        \/ \E id \in Ids : ThreadBegin(t, id)
        \/ ThreadLookup(t)
        \/ ThreadHitCheck(t)
        \/ ThreadHitRemove(t)
        \/ ThreadHitAppend(t)
        \/ ThreadQuery(t)
        \/ ThreadSizeCheck(t)
        \/ ThreadEvictCheck(t)
        \/ ThreadEvictPop(t)
        \/ ThreadEvictDel(t)
        \/ ThreadInsertMap(t)
        \/ ThreadInsertCheck(t)
        \/ ThreadInsertAppend(t)

ThreadsSpec == ThreadsInit /\ [][ThreadsNext]_vars

(***************************************************************************)
(* SEQUENCE_RE on its own: the pattern is applied to one stem after the    *)
(* other.                                                                  *)
(***************************************************************************)
\* The stems of up to MaxStemLen characters over a letter, a digit and a
\* separator.
Stems == UNION { [1..n -> {"a", "0", "_"}] : n \in 0..MaxStemLen }

ApplyPattern(stem) ==
    /\ tried' = Match(stem)
    /\ UNCHANGED << store, assigned, mutations, cacheMaxSize, cache, order,
                    progressive, call, last, threads >>

PatternNext == \E stem \in Stems : ApplyPattern(stem)

PatternSpec == Init /\ [][PatternNext]_vars

(***************************************************************************)
(* Properties.  A property of what a call returns is stated of the call    *)
(* made in the current state: GetCompleteSequence and IdsForPoster give    *)
(* the result of the call together with the cache it leaves, so "in every  *)
(* reachable cache state the call returns X" is an invariant.              *)
(***************************************************************************)
NoDuplicates(s) == \A i, j \in 1..Len(s) : i # j => s[i] # s[j]

\* The record's stem is a frame name (it matches SEQUENCE_RE).
IsFrame(id) == SequenceReMatches(PathOf(id).stem)

\* The records of the Store that share the record's directory, base name
\* and extension and have a numeric suffix: its sequence group.
Group(id) ==
    { j \in store :
        /\ IsFrame(j)
        /\ PathOf(j).parent = PathOf(id).parent
        /\ PathOf(j).ext = PathOf(id).ext
        /\ SequenceReBase(PathOf(j).stem) = SequenceReBase(PathOf(id).stem) }

InSequence(id) == id \in store /\ IsFrame(id) /\ Cardinality(Group(id)) >= 2

\* C1: the number of cache keys and the length of the ledger never exceed
\* the configured capacity, whatever the capacity and the group sizes.
C1_WithinCapacity ==
    /\ Cardinality(CacheKeys(cache)) <= cacheMaxSize
    /\ Len(order) <= cacheMaxSize

\* C2: the ledger holds no identifier twice and holds exactly the cache's
\* keys (so its length is the number of keys), in every reachable state.
C2_LedgerIsKeySet ==
    /\ NoDuplicates(order)
    /\ SeqSet(order) = CacheKeys(cache)
    /\ Len(order) = Cardinality(CacheKeys(cache))

\* C2, its case: a hit has moved the first member of a cached group to the
\* most-recently-used end of the ledger.
C2_HitTouchedLedger ==
    /\ last = "gcs"
    /\ \E k \in CacheKeys(cache) :
          /\ Len(cache[k]) >= 2
          /\ order[Len(order)] = cache[k][1]

\* C3: for a record of a group of N >= 2 records, get_complete_sequence
\* returns, in every reachable cache state, exactly the N records of the
\* group ordered by path, the first one being the poster.
C3_ReturnsWholeGroup ==
    \A id \in store :
        InSequence(id) =>
            LET g == GetCompleteSequence(cache, order, id, TRUE)
            IN  /\ g.out = SortByPath(Group(id))
                /\ g.out[1] = Poster(g.out)

\* C4: for a record whose stem is no frame name, in every reachable cache
\* state, get_complete_sequence returns [record] and ids_for_poster
\* returns [record.id].
C4_NonFrameIsSingleton ==
    \A id \in store :
        ~IsFrame(id) =>
            /\ GetCompleteSequence(cache, order, id, TRUE).out = <<id>>
            /\ IdsForPoster(cache, order, id, TRUE, TRUE).out = <<id>>

\* C5: ids_for_poster called with the identifier of a group's poster
\* returns the identifiers of exactly the members of that group, cached
\* or not.
C5_PosterIdsAreGroup ==
    \A id \in store :
        (InSequence(id) /\ id = Poster(SortByPath(Group(id)))) =>
            SeqSet(IdsForPoster(cache, order, id, TRUE, TRUE).out) = Group(id)

\* C6: for every identifier, in every reachable cache state and whether or
\* not the Store calls succeed, ids_for_poster returns without raising a
\* non-empty list that contains the identifier.
C6_IdsForPosterNeverRaises ==
    \A id \in Ids, okEntry \in BOOLEAN, okSeq \in BOOLEAN :
        LET r == IdsForPoster(cache, order, id, okEntry, okSeq)
        IN  ~r.raised /\ id \in SeqSet(r.out)

\* C7: cached lists are symmetric: every member of a cached list that is
\* itself a cache key maps to that same list.
C7_CachedListsSymmetric ==
    \A k \in CacheKeys(cache) :
        \A m \in SeqSet(cache[k]) \cap CacheKeys(cache) : cache[m] = cache[k]

\* C8: in every reachable cache state get_complete_sequence returns what
\* the same call returns with an empty cache against the current Store.
C8_CacheIsTransparent ==
    \A id \in store :
        GetCompleteSequence(cache, order, id, TRUE).out
            = GetCompleteSequence(EmptyCache, <<>>, id, TRUE).out

\* What clear_cache leaves: nothing in the cache, the ledger, the page cache.
AllCleared == cache = EmptyCache /\ order = <<>> /\ progressive = NoPages

\* C9 as claimed: after clear_cache everything is empty and the next
\* get_complete_sequence call, on any record, is a miss that queries the
\* Store again and re-populates the cache.
C9_ClearThenMissQueries ==
    last = "clear" =>
        /\ AllCleared
        /\ \A id \in 1..assigned, ok \in BOOLEAN :
              LET g == GetCompleteSequence(cache, order, id, ok)
              IN  ~g.hit /\ g.queried /\ CacheKeys(g.cache) # {}

\* C9 as amended: after clear_cache everything is empty and the next
\* get_complete_sequence call, on any record, is a miss that re-populates
\* the cache; it queries the Store exactly when the stem is a frame name.
C9_ClearThenMiss ==
    last = "clear" =>
        /\ AllCleared
        /\ \A id \in 1..assigned, ok \in BOOLEAN :
              LET g == GetCompleteSequence(cache, order, id, ok)
              IN  /\ ~g.hit
                  /\ g.queried <=> IsFrame(id)
                  /\ CacheKeys(g.cache) # {}

\* C9, its case: clear_cache has just run on a library that holds a frame
\* and a file that is none.
C9_Cleared ==
    /\ last = "clear"
    /\ \E i, j \in store : IsFrame(i) /\ ~IsFrame(j)

\* C10: for every record of the Store, of two consecutive
\* get_complete_sequence calls on it, with nothing happening in between
\* and the Store as available to the second as to the first, the second
\* returns the list the first returned; whatever the availability, the
\* second is a cache hit that issues no pattern query.
C10_SecondCallIsHit ==
    \A id \in store, ok1 \in BOOLEAN, ok2 \in BOOLEAN :
        LET g1 == GetCompleteSequence(cache, order, id, ok1)
            g2 == GetCompleteSequence(g1.cache, g1.order, id, ok2)
        IN  /\ g2.hit
            /\ ~g2.queried
            /\ (ok1 = ok2) => g2.out = g1.out

\* C10, its case: a call has just cached a whole group of the Store, so
\* that the same call made again is answered from the cache.
C10_GroupCached ==
    /\ last = "gcs"
    /\ \E id \in store : InSequence(id) /\ Len(cache[id]) >= 2

(***************************************************************************)
(* Pages.  The result of a page call is read in the state in which the     *)
(* call returns: StreamReturn for page 0 (pc "streamDone"), ExactReturn    *)
(* for a later page (pc "exactDone"), FilteredReturn with a filter         *)
(* (pc "filtered", nothing left to assemble).                              *)
(***************************************************************************)
\* The display list of the Store: its records in identifier order, every
\* sequence group collapsed into its poster at the place of its first
\* member, with the group's size as frame count (0 for a single file).
RECURSIVE DisplayFrom(_, _)
DisplayFrom(entries, covered) ==
    IF entries = <<>> THEN [items |-> <<>>, counts |-> <<>>]
    ELSE LET id == Head(entries)
             g  == IF InSequence(id) THEN Group(id) ELSE {id}
             r  == DisplayFrom(Tail(entries), covered \cup g)
         IN  IF id \in covered THEN DisplayFrom(Tail(entries), covered)
             ELSE [items  |-> <<Poster(SortByPath(g))>> \o r.items,
                   counts |-> <<IF InSequence(id) THEN Cardinality(g) ELSE 0>>
                                \o r.counts]

DisplayList == DisplayFrom(SortById(store), {})

PageZeroReturns == call.pc = "streamDone" /\ call.num = 0

\* C11: an unfiltered page 0 whose size is at least the number of display
\* items of a static Store is the display list: one item per single file
\* (no frame count) and one per sequence group (its poster, with the
\* group's size), in the identifier order of their first members.
C11_PageZeroIsDisplayList ==
    (PageZeroReturns /\ call.size >= Len(DisplayList.items)) =>
        /\ StreamReturn(TRUE).items = DisplayList.items
        /\ StreamReturn(TRUE).counts = DisplayList.counts

\* C12: get_sequence_aware_page never raises to its caller: whichever
\* Store call fails, the scan that has ended hands back a result (items,
\* frame counts, estimated total) made of the items assembled so far.
C12_PageNeverRaises ==
    /\ call.pc = "streamDone" =>
          \A ok \in BOOLEAN :
              /\ ~StreamReturn(ok).raised
              /\ StreamReturn(ok).items = Slice(call.items, 0, call.size)
    /\ call.pc = "exactDone" =>
          \A ok \in BOOLEAN :
              /\ ~ExactReturn(ok).raised
              /\ ExactReturn(ok).items = Slice(call.items, 0, call.size)

\* The sibling query of a record answers with no record at all.
NoSiblingFound(id) ==
    /\ cache[id] = <<>>
    /\ IsFrame(id)
    /\ QuerySequenceSiblings(id, SequenceReBase(PathOf(id).stem), TRUE) = <<>>

\* C13: when the Store fails during get_complete_sequence(record), be it
\* the sibling query of a miss or the fetch by identifier of a hit, or
\* when the sibling query finds no record, the call returns [record]
\* (the call has no raising outcome: its whole body is guarded).
C13_FailSoftSingleton ==
    \A id \in 1..assigned :
        /\ GetCompleteSequence(cache, order, id, FALSE).out = <<id>>
        /\ NoSiblingFound(id) =>
              GetCompleteSequence(cache, order, id, TRUE).out = <<id>>

\* C13, its case: a call made while the Store failed has left a member of
\* a group cached alone, and the sibling query of another record, deleted
\* from the Store, finds nothing.
C13_FailedAndEmptyQuery ==
    /\ last = "gcs"
    /\ \E id \in store : InSequence(id) /\ cache[id] = <<id>>
    /\ \E id \in 1..assigned : NoSiblingFound(id)

\* The items and frame counts of the display list at the positions of
\* page num of size size.
DisplayPage(num, size) ==
    [items  |-> Slice(DisplayList.items, num * size, num * size + size),
     counts |-> Slice(DisplayList.counts, num * size, num * size + size)]

\* C14: on a static Store an unfiltered page p of size S is the part
\* [p*S, (p+1)*S) of the display list, whatever was requested before.
C14_PageIsSliceOfDisplayList ==
    /\ PageZeroReturns =>
          /\ StreamReturn(TRUE).items = DisplayPage(0, call.size).items
          /\ StreamReturn(TRUE).counts = DisplayPage(0, call.size).counts
    /\ call.pc = "exactDone" =>
          /\ ExactReturn(TRUE).items = DisplayPage(call.num, call.size).items
          /\ ExactReturn(TRUE).counts = DisplayPage(call.num, call.size).counts

\* The records the page-0 scan has fetched when it ends: the batches it
\* has counted in offset and, when it broke out of the loop, the last one.
Fetched == Min(call.offset + call.batchLen, Cardinality(store))

\* C15: without Store error the page-0 scan ends only with page_size
\* display items, or with every record of the Store fetched, or past the
\* safety cap; so it holds fewer than page_size items only if the Store
\* has fewer than page_size display items or the cap was passed.
C15_ScanEndsOnlyWhenDone ==
    call.pc = "streamDone" =>
        /\ \/ Len(call.items) >= call.size
           \/ Fetched = Cardinality(store)
           \/ call.offset > StreamSafetyCap
        /\ Len(call.items) < call.size =>
              \/ Len(DisplayList.items) < call.size
              \/ call.offset > StreamSafetyCap

\* _process_entries_for_sequences as a function: what its loop assembles
\* from the list entries, started with cache c and ledger o.
RECURSIVE ProcessEntriesForSequences(_, _, _, _)
ProcessEntriesForSequences(c, o, entries, processed) ==
    IF entries = <<>> THEN [items |-> <<>>, counts |-> <<>>]
    ELSE LET id == Head(entries)
             g  == GetCompleteSequence(c, o, id, TRUE)
             seen == IF Len(g.out) > 1 THEN SeqSet(g.out) ELSE {id}
             r  == ProcessEntriesForSequences(g.cache, g.order, Tail(entries),
                                              processed \cup seen)
         IN  IF id \in processed
             THEN ProcessEntriesForSequences(c, o, Tail(entries), processed)
             ELSE IF Len(g.out) > 1
             THEN [items  |-> <<Poster(g.out)>> \o r.items,
                   counts |-> <<Len(g.out)>> \o r.counts]
             ELSE [items  |-> <<id>> \o r.items,
                   counts |-> <<0>> \o r.counts]

\* The filtered result of the call in progress, assembled once with an
\* empty cache.
AssembledOnce ==
    ProcessEntriesForSequences(EmptyCache, <<>>, SearchLibrary(call.filt), {})

FilteredReturns == call.pc = "filtered" /\ call.batch = <<>>

Extrapolated(d, r) == IF r = 0 THEN d ELSE (d * EntriesCount) \div r

\* C17: without a filter the estimated total is floor(D * T / R): D the
\* display items the scan found, R the records it examined to find them,
\* T the Store's record count; it is D when no record was examined.
C17_EstimateExtrapolatesExamined ==
    /\ call.pc = "streamDone" =>
          StreamReturn(TRUE).total = Extrapolated(Len(call.items), call.examined)
    /\ call.pc = "exactDone" =>
          ExactReturn(TRUE).total = Extrapolated(call.found, call.examined)

\* No thread is inside a call.
Quiescent == \A t \in Threads : At(t, "idle")

\* C18: with two threads in get_complete_sequence, whenever no thread is
\* inside a call (the only states a mutual-exclusion scope would let
\* anyone see), every ledger identifier is a cache key, every cache key is
\* in the ledger, the ledger holds no identifier twice and the cache is
\* not larger than the capacity.
C18_ThreadsKeepCacheConsistent ==
    Quiescent =>
        /\ SeqSet(order) = CacheKeys(cache)
        /\ NoDuplicates(order)
        /\ Cardinality(CacheKeys(cache)) <= cacheMaxSize

\* The digit counts k of 3 to 6 for which the stem ends in k digits.
DigitSuffixes(stem) ==
    { k \in 3..6 :
        /\ Len(stem) >= k
        /\ \A i \in (Len(stem) - k + 1)..Len(stem) : stem[i] \in Digits }

\* What is before the longest such suffix, without a separator at its end.
BaseBeforeSuffix(stem) ==
    LET k    == CHOOSE n \in DigitSuffixes(stem) :
                    \A m \in DigitSuffixes(stem) : m <= n
        rest == SubSeq(stem, 1, Len(stem) - k)
    IN  IF rest # <<>> /\ rest[Len(rest)] \in Separators
        THEN SubSeq(rest, 1, Len(rest) - 1)
        ELSE rest

\* C19: a stem is a frame name exactly when it ends in an optional
\* separator followed by 3 to 6 digits, and its base is what stands
\* before that suffix, the separator left out.
C19_FrameIffDigitSuffix ==
    /\ tried.match <=> DigitSuffixes(tried.stem) # {}
    /\ tried.match => tried.base = BaseBeforeSuffix(tried.stem)

\* The identifiers at the first n positions of the ledger o.
Front(o, n) == { o[i] : i \in 1..Min(n, Len(o)) }

\* A miss on id would have to evict: the cache size and the number of
\* identifiers the miss inserts exceed the capacity together.
OverCapacity(g) ==
    Cardinality(CacheKeys(cache)) + Len(g.out) > cacheMaxSize

\* C20 as claimed: a miss that inserts N identifiers evicts nothing when
\* cache size + N is within the capacity; otherwise exactly N entries are
\* removed, those of the N identifiers at the front of the ledger, and no
\* other entry is removed (the identifiers inserted are keys afterwards).
C20_EvictsExactlyN ==
    \A id \in 1..assigned, ok \in BOOLEAN :
        LET g == GetCompleteSequence(cache, order, id, ok)
            N == Len(g.out)
        IN  ~g.hit =>
              IF ~OverCapacity(g)
              THEN /\ CacheKeys(g.cache) = CacheKeys(cache) \cup SeqSet(g.out)
                   /\ \A k \in CacheKeys(cache) \ SeqSet(g.out) :
                         g.cache[k] = cache[k]
              ELSE /\ Len(order) >= N
                   /\ Cardinality(Front(order, N)) = N
                   /\ CacheKeys(g.cache) =
                         (CacheKeys(cache) \ Front(order, N)) \cup SeqSet(g.out)
                   /\ \A k \in CacheKeys(cache) \ (Front(order, N) \cup SeqSet(g.out)) :
                         g.cache[k] = cache[k]

\* C20 as amended: a miss that inserts N identifiers evicts nothing when
\* cache size + N is within the capacity; otherwise min(N, ledger length)
\* entries are removed, those of the identifiers at the front of the
\* ledger, and no other entry is removed (the identifiers inserted are
\* keys afterwards); the ledger loses these identifiers at its front.
C20_EvictsFrontOfLedger ==
    \A id \in 1..assigned, ok \in BOOLEAN :
        LET g == GetCompleteSequence(cache, order, id, ok)
            N == Len(g.out)
            n == Min(N, Len(order))
        IN  ~g.hit =>
              IF ~OverCapacity(g)
              THEN /\ CacheKeys(g.cache) = CacheKeys(cache) \cup SeqSet(g.out)
                   /\ \A k \in CacheKeys(cache) \ SeqSet(g.out) :
                         g.cache[k] = cache[k]
              ELSE /\ Cardinality(Front(order, N)) = n
                   /\ CacheKeys(g.cache) =
                         (CacheKeys(cache) \ Front(order, N)) \cup SeqSet(g.out)
                   /\ \A k \in CacheKeys(cache) \ (Front(order, N) \cup SeqSet(g.out)) :
                         g.cache[k] = cache[k]
                   /\ \A i \in 1..(Len(order) - n) : g.order[i] = order[n + i]

\* C20, its case: a call has left two entries in the cache and a miss on a
\* frame of a group of two comes next, which has to evict both.
C20_MissEvictsTwo ==
    /\ last = "gcs"
    /\ Len(order) = 2
    /\ \E id \in store :
          LET g == GetCompleteSequence(cache, order, id, TRUE)
          IN  /\ ~g.hit
              /\ Len(g.out) = 2
              /\ OverCapacity(g)
              /\ Front(order, 2) \cap CacheKeys(g.cache) = {}

\* The ledger o without the identifier id.
Without(o, id) == SelectSeq(o, LAMBDA e : e # id)

\* C21: a cache hit of get_complete_sequence on identifier k leaves the
\* cache map as it was, makes k the last element of the ledger, and leaves
\* the other identifiers of the ledger, k's siblings among them, in the
\* order they had; this whether or not the Store answers the hit.
C21_HitTouchesOnlyLedgerEnd ==
    \A k \in 1..assigned, ok \in BOOLEAN :
        LET g == GetCompleteSequence(cache, order, k, ok)
        IN  g.hit =>
              /\ g.cache = cache
              /\ g.order = Without(order, k) \o <<k>>

\* C21, its case: a hit on the first member of a cached group has moved
\* it behind the group's last member in the ledger.
C21_HitMovedBehindSibling ==
    /\ last = "gcs"
    /\ Len(order) >= 2
    /\ \E k \in CacheKeys(cache) :
          /\ Len(cache[k]) >= 2
          /\ order[Len(order)] = cache[k][1]
          /\ order[Len(order) - 1] = cache[k][Len(cache[k])]

\* The records a record stands for: its group when its stem is a frame
\* name, the record alone when it is not.
Members(id) == IF IsFrame(id) THEN Group(id) ELSE {id}

\* C22: the cache is empty before the first call; a miss of
\* get_complete_sequence on a record of the Store, the Store answering,
\* whose group of N records (N = 1 for a record that belongs to no
\* sequence) is not larger than the capacity leaves every one of the N
\* identifiers a cache key mapped to the N identifiers in path order, and
\* each of them in the ledger.
C22_MissCachesWholeGroup ==
    /\ last = "none" => cache = EmptyCache /\ order = <<>>
    /\ \A id \in store :
          LET g == GetCompleteSequence(cache, order, id, TRUE)
          IN  (~g.hit /\ Cardinality(Members(id)) <= cacheMaxSize) =>
                \A m \in Members(id) :
                    /\ g.cache[m] = SortByPath(Members(id))
                    /\ m \in SeqSet(g.order)

\* In a page made of items, frame counts and the groups they were taken
\* from: no identifier is displayed twice, and no record is a member of
\* the groups of two items that carry a frame count.
EachRecordOnce(items, counts, groups) ==
    /\ NoDuplicates(items)
    /\ \A i, j \in 1..Len(items) :
          (i # j /\ counts[i] # 0 /\ counts[j] # 0) =>
              groups[i] \cap groups[j] = {}

\* C23: in every result of get_sequence_aware_page, with or without a
\* filter and for any page, no record identifier is in display_items more
\* than once and no record is counted in the frame count of two display
\* items, whatever the cache held.
C23_NoRecordTwiceInPage ==
    /\ FilteredReturns =>
          LET first == call.num * call.size
          IN  EachRecordOnce(FilteredReturn.items, FilteredReturn.counts,
                             Slice(call.groups, first, first + call.size))
    /\ PageZeroReturns =>
          EachRecordOnce(StreamReturn(TRUE).items, StreamReturn(TRUE).counts,
                         Slice(call.groups, 0, call.size))
    /\ call.pc = "exactDone" =>
          EachRecordOnce(ExactReturn(TRUE).items, ExactReturn(TRUE).counts,
                         Slice(call.groups, 0, call.size))

\* C24: every record of the list a miss of get_complete_sequence(record)
\* resolves with a sibling query shares the record's parent directory,
\* base name and extension and has a numeric suffix of 3 to 6 digits: no
\* record with another extension, another base or another directory is in
\* the list.
C24_ResolvedGroupSharesName ==
    \A id \in store :
        LET g == GetCompleteSequence(cache, order, id, TRUE)
        IN  (~g.hit /\ g.queried) => SeqSet(g.out) \subseteq Group(id)

\* The members of the list ids that the Store holds, in the list's order.
StillHeld(ids) == SelectSeq(ids, LAMBDA e : e \in store)

\* C25: a cache hit of get_complete_sequence, the Store answering,
\* returns the cached member list without the members the Store no longer
\* holds, in the cached order; a deleted member makes the call neither
\* fail nor fall back to the single record.
C25_HitFiltersDeletedMembers ==
    \A id \in 1..assigned :
        LET g == GetCompleteSequence(cache, order, id, TRUE)
        IN  g.hit => g.out = StillHeld(cache[id])

\* C25, its case: a hit on a record of the Store whose cached list has a
\* member deleted since.
C25_HitAfterDeletion ==
    /\ last = "gcs"
    /\ order # <<>>
    /\ LET k == order[Len(order)]
       IN  /\ k \in store
           /\ Len(cache[k]) >= 2
           /\ \E m \in SeqSet(cache[k]) : m \notin store

\* The records a scan has fetched are not more than its safety cap and
\* one batch.
ScanWithinCap ==
    /\ call.pc = "streamBatch" =>
          call.offset + call.batchLen <= StreamSafetyCap + call.batchSize
    /\ call.pc \in {"stream", "streamDone"} =>
          call.offset <= StreamSafetyCap + call.batchSize
    /\ call.pc = "exactBatch" =>
          call.offset + call.batchLen <= ExactSafetyCap + call.batchSize
    /\ call.pc \in {"exact", "exactDone"} =>
          call.offset <= ExactSafetyCap + call.batchSize

\* C26: every call of get_sequence_aware_page comes to its end, whatever
\* the page number, the page size, the records of the Store and the Store
\* calls that fail, and no scan fetches more records than the safety cap
\* and one batch.
C26_PageCallTerminates ==
    /\ [] ScanWithinCap
    /\ (call.pc # "idle") ~> (call.pc = "idle")

\* C26, its case: a scan of the streaming paginator has ended past its
\* safety cap and is about to return.
C26_ScanEndedPastCap ==
    \/ call.pc = "streamDone" /\ call.offset > StreamSafetyCap
    \/ call.pc = "exactDone" /\ call.offset > ExactSafetyCap

\* The record of the set S whose path string is the smallest.
SmallestPath(S) ==
    CHOOSE m \in S :
        \A y \in S \ {m} : StrLess(PathStr(PathOf(m)), PathStr(PathOf(y)))

\* In a page made of items, frame counts and the groups they were taken
\* from: a frame count is None (0) or at least 2; with a count the item
\* is the member of its group with the smallest path and the count is
\* the group's size; without one the item is the candidate record itself.
CountsMatchGroups(items, counts, groups) ==
    /\ Len(counts) = Len(items)
    /\ \A i \in 1..Len(items) :
          IF counts[i] = 0
          THEN groups[i] = {items[i]}
          ELSE /\ counts[i] >= 2
               /\ counts[i] = Cardinality(groups[i])
               /\ items[i] = SmallestPath(groups[i])

\* C27: in every result of get_sequence_aware_page each frame count is
\* None or an integer of at least 2; with an integer the display item at
\* the same index is the smallest member by path of the group resolved
\* for it and the count is that group's size; with None the display item
\* is the candidate record itself.
C27_FrameCountsMatchGroups ==
    /\ FilteredReturns =>
          LET first == call.num * call.size
          IN  CountsMatchGroups(FilteredReturn.items, FilteredReturn.counts,
                                Slice(call.groups, first, first + call.size))
    /\ PageZeroReturns =>
          CountsMatchGroups(StreamReturn(TRUE).items, StreamReturn(TRUE).counts,
                            Slice(call.groups, 0, call.size))
    /\ call.pc = "exactDone" =>
          CountsMatchGroups(ExactReturn(TRUE).items, ExactReturn(TRUE).counts,
                            Slice(call.groups, 0, call.size))

\* C27, its case: a page is about to be returned that holds a poster with
\* its frame count and a single file without one.
C27_PageWithPosterAndSingle ==
    /\ FilteredReturns \/ PageZeroReturns \/ call.pc = "exactDone"
    /\ call.size = 2
    /\ Len(call.counts) >= 2
    /\ \E i, j \in 1..2 : call.counts[i] >= 2 /\ call.counts[j] = 0

\* C28: get_complete_sequence(record) returns a non-empty list that holds
\* the record, in every reachable state of the cache and of the Store,
\* whether or not the Store answers: also on a hit after the record or
\* its siblings were deleted from the Store.
C28_ResultHoldsTheRecord ==
    \A id \in 1..assigned, ok \in BOOLEAN :
        LET g == GetCompleteSequence(cache, order, id, ok)
        IN  g.out # <<>> /\ id \in SeqSet(g.out)

\* The records the first page of the scan in progress stands for: its
\* display items and the members of the groups of its posters.
Represented == UNION SeqSet(Slice(call.groups, 0, call.size))

\* The records the scan in progress has examined: it takes the records
\* of the Store in identifier order, call.examined of them so far.
Seen == SeqSet(SubSeq(SortById(store), 1, call.examined))

\* C29: without a filter, when page_size is at least the number of
\* display items of the Store, every record the scan of page 0 examined
\* is one of the returned display items or a member of the group of a
\* returned poster, whatever the cache held: no record is dropped because
\* the poster of its resolved group was emitted before.
C29_NoRecordDropped ==
    (PageZeroReturns /\ call.size >= Len(DisplayList.items)) =>
        Seen \subseteq Represented

FilteredSet == store \cap call.filt

\* C31 as claimed: with a filter, every display item
\* get_sequence_aware_page returns is a record of the Store's filtered
\* result set: the poster of a group is emitted only if the poster
\* matches the filter.
C31_FilteredItemsMatchFilter ==
    FilteredReturns => SeqSet(FilteredReturn.items) \subseteq FilteredSet

\* C31 as amended: with a filter, every display item
\* get_sequence_aware_page returns is a record of the filtered result set
\* shown without a frame count, or the poster of the group resolved for a
\* record of the filtered result set, whether or not the poster itself
\* matches the filter.
C31_FilteredItemsStandForMatches ==
    FilteredReturns =>
        \A i \in 1..Len(call.items) :
            IF call.counts[i] = 0
            THEN call.items[i] \in FilteredSet
            ELSE /\ call.groups[i] \cap FilteredSet # {}
                 /\ call.items[i] \in call.groups[i]

\* C31, its case: a filtered page is about to be returned whose poster
\* does not match the filter while another frame of its group does.
C31_PosterOutsideFilter ==
    /\ FilteredReturns
    /\ \E i \in 1..Len(FilteredReturn.items) :
          /\ FilteredReturn.counts[i] >= 2
          /\ FilteredReturn.items[i] \notin FilteredSet

\* C32: a failed resolution is not memoized: when the sibling query fails
\* during get_complete_sequence on a member of a group of N >= 2 records
\* and the Store answers again afterwards, the next get_complete_sequence
\* on the same record, with no clear_cache in between, returns all N
\* members.
C32_FailedResolutionNotMemoized ==
    \A id \in store :
        InSequence(id) =>
            LET g1 == GetCompleteSequence(cache, order, id, FALSE)
                g2 == GetCompleteSequence(g1.cache, g1.order, id, TRUE)
            IN  (~g1.hit /\ g1.queried) => Group(id) \subseteq SeqSet(g2.out)

\* A page result holds as many frame counts as display items, and not
\* more than size of them.
WithinPage(r, size) ==
    ~r.raised => Len(r.items) = Len(r.counts) /\ Len(r.items) <= size

\* C33: in every result of get_sequence_aware_page, with or without a
\* filter, for any page number and any Store, whether or not the Store
\* answers, display_items and frame_counts have the same length, which is
\* at most page_size.
C33_PageHoldsAtMostPageSize ==
    /\ FilteredReturns => WithinPage(FilteredReturn, call.size)
    /\ PageZeroReturns =>
          \A ok \in BOOLEAN : WithinPage(StreamReturn(ok), call.size)
    /\ call.pc = "exactDone" =>
          \A ok \in BOOLEAN : WithinPage(ExactReturn(ok), call.size)

\* C33, its case: a call is about to return that has assembled more
\* display items than a page holds.
C33_MoreItemsThanPage ==
    /\ FilteredReturns \/ PageZeroReturns
    /\ Len(call.items) > call.size

=============================================================================
